---- MODULE Spec2Model ----
(***************************************************************************)
(* Image dataset indexing and batched sequence building of the notebooks   *)
(* tf2-dvc-cnn (dogs-vs-cats CNN), the traffic-sign CNN notebook and the   *)
(* dogs-vs-cats ViT notebook: get_paths, label_names / label_to_index,     *)
(* get_labels, the tf.data pipelines built on the indexed lists and the    *)
(* passes that take(1), fit and evaluate make over them.                   *)
(***************************************************************************)
EXTENDS Integers, Sequences, FiniteSets, Bags, TLC

VARIABLES nb, fs, image_paths, label_names, label_to_index, image_labels,
          datasets, pc, error, it, delivered, epoch, epoch_log, produced,
          corrupt, inputs, decodes, pass_log, mp, asm, pf, th, round,
          files, loaded, layers, train_layer, layer_i, prior

vars == <<nb, fs, image_paths, label_names, label_to_index, image_labels,
          datasets, pc, error, it, delivered, epoch, epoch_log, produced,
          corrupt, inputs, decodes, pass_log, mp, asm, pf, th, round,
          files, loaded, layers, train_layer, layer_i, prior>>

\* the image files load_image is called on and what the calls returned
loaderVars == <<files, loaded>>

\* the layers of the model the fine-tuning loop runs over, and the loop's state
tuneVars == <<layers, train_layer, layer_i>>

\* the stages of an open iterator that run ahead of the consumer
stageVars == <<mp, asm, pf, th>>

----------------------------------------------------------------------------
(* Program constants of the notebooks.                                     *)

NIMAGES_TRAIN_DVC == 2000
NIMAGES_TRAIN_GTSRB == 5535
NIMAGES_TRAIN_VIT == 2000
SHUFFLE_BUFFER_DVC == 2000
SHUFFLE_BUFFER_GTSRB == 2000
BATCH_SIZE_DVC == 32
BATCH_SIZE_GTSRB == 50
BATCH_SIZE_VIT == 32
NUM_PARALLEL_CALLS == 10

(* Bounds of the model: the split sizes, the batch size and the number of  *)
(* epochs are scaled down; SmallShuffle stands for a shuffle buffer that   *)
(* is smaller than the training split by a batch or more, so that the      *)
(* first batch is complete before the whole split has been read.           *)

NTrain == 3
NVal == 3
NTest == 3
BatchSize == 2
SmallShuffle == 1
Epochs == 2
MaxPerClass == 2
\* load_image invocations map() may run at once, scaled from num_parallel_calls
NumParallelCalls == 2
\* the largest depth the runtime gives prefetch(AUTOTUNE)
MaxPrefetch == 2
\* the fit / evaluate pairs run one after the other, scaled from three
Rounds == 2

Notebooks == {"dvc", "gtsrb", "vit"}
Splits == {"train", "validation", "test"}

\* nimages = {'train': ..., 'validation': ..., 'test': ...}, scaled
nimages == [s \in Splits |->
              IF s = "train" THEN NTrain ELSE IF s = "validation" THEN NVal ELSE NTest]

\* The training split size and the shuffle buffer literal as the notebook states them
RealTrainSize(n) ==
  IF n = "dvc" THEN NIMAGES_TRAIN_DVC
  ELSE IF n = "gtsrb" THEN NIMAGES_TRAIN_GTSRB ELSE NIMAGES_TRAIN_VIT

RealBatchSize(n) ==
  IF n = "dvc" THEN BATCH_SIZE_DVC
  ELSE IF n = "gtsrb" THEN BATCH_SIZE_GTSRB ELSE BATCH_SIZE_VIT

\* shuffle(2000) in the CNN notebooks, shuffle(len(dataset_train)) in the ViT one
RealShuffleBuffer(n) ==
  IF n = "dvc" THEN SHUFFLE_BUFFER_DVC
  ELSE IF n = "gtsrb" THEN SHUFFLE_BUFFER_GTSRB ELSE RealTrainSize(n)

----------------------------------------------------------------------------
(* Directory names are strings compared by code point, as Python compares  *)
(* them: a name is the sequence of its code points.                        *)

cat == <<99, 97, 116>>
cow == <<99, 111, 119>>
dog == <<100, 111, 103>>

RECURSIVE LexLess(_, _)
LexLess(a, b) ==
  IF a = <<>> THEN b # <<>>
  ELSE IF b = <<>> THEN FALSE
  ELSE IF a[1] # b[1] THEN a[1] < b[1]
  ELSE LexLess(Tail(a), Tail(b))

\* sorted(): insertion of x into an already sorted sequence
RECURSIVE InsertSorted(_, _)
InsertSorted(x, s) ==
  IF s = <<>> THEN <<x>>
  ELSE IF LexLess(x, Head(s)) THEN <<x>> \o s
  ELSE <<Head(s)>> \o InsertSorted(x, Tail(s))

RECURSIVE SortedSeq(_)
SortedSeq(s) ==
  IF s = <<>> THEN <<>> ELSE InsertSorted(Head(s), SortedSeq(Tail(s)))

----------------------------------------------------------------------------
(* The directory snapshot.  A split directory is the sequence of its       *)
(* entries in the order the operating system lists them; an entry is a     *)
(* plain file or a directory holding n files and sub directories of its    *)
(* own, each of which holds one file.                                      *)

Perms(S) ==
  {p \in [1..Cardinality(S) -> S] : \A i, j \in 1..Cardinality(S) : p[i] = p[j] => i = j}

EntryKinds(kinds, maxn) ==
  {[kind |-> "absent", n |-> 0, sub |-> 0] : x \in {k \in kinds : k = "absent"}}
    \cup {[kind |-> "file", n |-> 0, sub |-> 0] : x \in {k \in kinds : k = "file"}}
    \cup {[kind |-> "dir", n |-> m, sub |-> 0] : m \in 0..maxn}
    \cup {[kind |-> "dir", n |-> m, sub |-> 1] :
            m \in 0..maxn, x \in {k \in kinds : k = "nested"}}

Listing(order, content) ==
  SelectSeq([i \in 1..Len(order) |->
               [name |-> order[i], kind |-> content[order[i]].kind,
                n |-> content[order[i]].n, sub |-> content[order[i]].sub]],
            LAMBDA e : e.kind # "absent")

Reverse(s) == [i \in 1..Len(s) |-> s[Len(s) + 1 - i]]

\* The listing orders considered: by ascending and by descending name
ScanOrders(names) ==
  LET asc == SortedSeq(CHOOSE p \in Perms(names) : TRUE) IN {asc, Reverse(asc)}

Snapshots(names, kinds, maxn) ==
  {Listing(o, c) : o \in ScanOrders(names), c \in [names -> EntryKinds(kinds, maxn)]}

\* Every class directory present in every split, any listing order
PlainSnapshots == Snapshots({cat, dog}, {"dir"}, MaxPerClass)
\* Class directories may be missing or empty, and in the training split an
\* entry of the split directory may be a plain file
RichSnapshots ==
  [s \in Splits |->
     Snapshots({cat, cow, dog},
               IF s = "train" THEN {"absent", "file", "dir"} ELSE {"absent", "dir"},
               MaxPerClass)]
\* An entry of a split directory may be a plain file, and a class directory
\* may hold a directory of its own
DeepSnapshots == Snapshots({cat, dog}, {"file", "dir", "nested"}, MaxPerClass)

----------------------------------------------------------------------------
(* get_paths                                                               *)

\* the entries of one class directory, <split dir>/<class>/<entry>: its n
\* files, then its sub-directories
ChildPaths(split, e) == [i \in 1..(e.n + e.sub) |-> <<split, e.name, i>>]

\* data_root.glob('*/*'): every entry two levels below the split directory,
\* file or directory, directory by directory in listing order; plain files
\* have no children and what a sub-directory holds is not matched
RECURSIVE Glob2(_, _)
Glob2(split, listing) ==
  IF listing = <<>> THEN <<>>
  ELSE (IF Head(listing).kind = "dir" THEN ChildPaths(split, Head(listing)) ELSE <<>>)
         \o Glob2(split, Tail(listing))

\* faulty variants: a check that only rejects too many entries, and no check
CountOkLessEq(image_count, dataset) == image_count <= nimages[dataset]
CountOkNever(image_count, dataset) == TRUE
\* assert image_count == nimages[dataset]
CountOk(image_count, dataset) == image_count = nimages[dataset]

\* faulty variant: the dict made anew by every assignment to one of its keys
SetItemFresh(d, key, value) == (key :> value)
\* d[key] = value
SetItem(d, key, value) ==
  [k \in DOMAIN d \cup {key} |-> IF k = key THEN value ELSE d[k]]

PathsCell(s) == "paths_" \o s
LabelsCell(s) == "labels_" \o s

CellOrder ==
  <<"paths_train", "paths_validation", "paths_test", "label_names",
    "labels_train", "labels_validation", "labels_test", "build",
    "take1", "fit_train", "fit_validation", "evaluate", "done">>

Rank(cell) == CHOOSE i \in 1..Len(CellOrder) : CellOrder[i] = cell

NoError == [kind |-> "none", cell |-> "none"]

Running == error = NoError

GetPaths(s, family) ==
  /\ Running
  /\ pc = PathsCell(s)
  /\ \E snap \in (IF s \in DOMAIN fs THEN {fs[s]} ELSE family) :
       LET paths == Glob2(s, snap)
       IN /\ fs' = fs @@ (s :> snap)
          /\ IF CountOk(Len(paths), s)
             THEN /\ image_paths' = SetItem(image_paths, s, paths)
                  /\ pc' = CellOrder[Rank(pc) + 1]
                  /\ error' = error
             ELSE /\ error' = [kind |-> "CountMismatch", cell |-> pc]
                  /\ UNCHANGED <<image_paths, pc>>
  /\ UNCHANGED <<nb, label_names, label_to_index, image_labels, datasets,
                 it, delivered, epoch, epoch_log, produced>>
  /\ UNCHANGED <<corrupt, inputs, decodes, pass_log, mp, asm, pf, th, round>>
  /\ UNCHANGED <<loaderVars, tuneVars, prior>>

----------------------------------------------------------------------------
(* label_names, label_to_index, get_labels                                 *)

\* faulty variant: the is_dir() filter left out
DirNamesNoFilter(listing) == [i \in 1..Len(listing) |-> listing[i].name]
\* item.name for item in Path(datapath+'train').glob('*/') if item.is_dir()
DirNames(listing) ==
  LET dirs == SelectSeq(listing, LAMBDA e : e.kind = "dir")
  IN [i \in 1..Len(dirs) |-> dirs[i].name]

\* faulty variant: the names kept in listing order
SortNamesUnsorted(names) == names
\* sorted(...)
SortNames(names) == SortedSeq(names)

\* faulty variant: enumerate(label_names, 1)
EnumerateFromOne(names) ==
  [nm \in {names[i] : i \in 1..Len(names)} |->
     CHOOSE i \in 1..Len(names) : names[i] = nm]
\* faulty variant: the indices go on after those of the dict already there
EnumerateContinuing(names) ==
  [nm \in {names[i] : i \in 1..Len(names)} |->
     (CHOOSE i \in 1..Len(names) : names[i] = nm) - 1 + Cardinality(DOMAIN label_to_index)]
\* dict((name, index) for index, name in enumerate(label_names))
Enumerate(names) ==
  [nm \in {names[i] : i \in 1..Len(names)} |->
     (CHOOSE i \in 1..Len(names) : names[i] = nm) - 1]

LabelNames ==
  /\ Running
  /\ pc = "label_names"
  /\ label_names' = SortNames(DirNames(fs["train"]))
  /\ label_to_index' = Enumerate(label_names')
  /\ pc' = CellOrder[Rank(pc) + 1]
  /\ UNCHANGED <<nb, fs, image_paths, image_labels, datasets, error,
                 it, delivered, epoch, epoch_log, produced>>
  /\ UNCHANGED <<corrupt, inputs, decodes, pass_log, mp, asm, pf, th, round>>
  /\ UNCHANGED <<loaderVars, tuneVars, prior>>

\* pathlib.Path(path).parent.name
ParentName(path) == path[Len(path) - 1]

\* faulty variant: label_to_index.get(name, 0)
LookupDefault(name) ==
  IF name \in DOMAIN label_to_index THEN [ok |-> TRUE, v |-> label_to_index[name]]
  ELSE [ok |-> TRUE, v |-> 0]
\* label_to_index[name]: a KeyError when the name is no key
Lookup(name) ==
  IF name \in DOMAIN label_to_index THEN [ok |-> TRUE, v |-> label_to_index[name]]
  ELSE [ok |-> FALSE, v |-> 0]

GetLabels(s) ==
  /\ Running
  /\ pc = LabelsCell(s)
  /\ LET found == [i \in 1..Len(image_paths[s]) |-> Lookup(ParentName(image_paths[s][i]))]
     IN IF \A i \in 1..Len(found) : found[i].ok
        THEN /\ image_labels' = SetItem(image_labels, s, [i \in 1..Len(found) |-> found[i].v])
             /\ pc' = CellOrder[Rank(pc) + 1]
             /\ error' = error
        ELSE /\ error' = [kind |-> "UnknownLabel", cell |-> pc]
             /\ UNCHANGED <<image_labels, pc>>
  /\ UNCHANGED <<nb, fs, image_paths, label_names, label_to_index, datasets,
                 it, delivered, epoch, epoch_log, produced>>
  /\ UNCHANGED <<corrupt, inputs, decodes, pass_log, mp, asm, pf, th, round>>
  /\ UNCHANGED <<loaderVars, tuneVars, prior>>

----------------------------------------------------------------------------
(* The tf.data pipelines                                                   *)

\* faulty variant: the two lists sliced one position apart
FromTensorSlicesApart(paths, labels) ==
  [i \in 1..Len(paths) |-> [path |-> paths[i], label |-> labels[(i % Len(labels)) + 1]]]
\* tf.data.Dataset.from_tensor_slices((image_paths[s], image_labels[s]))
FromTensorSlices(paths, labels) ==
  [i \in 1..Len(paths) |-> [path |-> paths[i], label |-> labels[i]]]

\* load_image(path, label): the image read from path, and the label
LoadImage(e) == [image |-> [file |-> e.path], label |-> e.label]

\* the literal given to shuffle(), scaled with the training split: a buffer
\* that covers the real split covers the scaled one, a smaller one does not
ScaledShuffleBuffer(n) ==
  IF RealShuffleBuffer(n) >= RealTrainSize(n) THEN nimages["train"] ELSE SmallShuffle

\* faulty variant: drop_remainder=False on the training dataset
TrainPipelineKeepRemainder(n, source) ==
  [source |-> source, map |-> n # "vit",
   shuffle |-> IF n = "vit" THEN Len(source) ELSE ScaledShuffleBuffer(n),
   batch |-> BatchSize, drop |-> FALSE, prefetch |-> n # "vit"]
\* train: map(load_image).shuffle(2000).batch(BATCH_SIZE, drop_remainder=True).prefetch()
\* ViT: shuffle(len(dataset_train)).batch(BATCH_SIZE, drop_remainder=True) on preloaded images
TrainPipeline(n, source) ==
  [source |-> source, map |-> n # "vit",
   shuffle |-> IF n = "vit" THEN Len(source) ELSE ScaledShuffleBuffer(n),
   batch |-> BatchSize, drop |-> TRUE, prefetch |-> n # "vit"]

\* faulty variant: the validation dataset shuffled like the training dataset
ValidationPipelineShuffled(n, source) ==
  [source |-> source, map |-> n # "vit", shuffle |-> Len(source),
   batch |-> BatchSize, drop |-> TRUE, prefetch |-> n # "vit"]
\* validation: map(load_image).batch(BATCH_SIZE, drop_remainder=True).prefetch()
ValidationPipeline(n, source) ==
  [source |-> source, map |-> n # "vit", shuffle |-> 0,
   batch |-> BatchSize, drop |-> TRUE, prefetch |-> n # "vit"]

\* faulty variant: the test dataset shuffled like the training dataset
TestPipelineShuffled(n, source) ==
  [source |-> source, map |-> TRUE, shuffle |-> Len(source),
   batch |-> BatchSize, drop |-> FALSE, prefetch |-> TRUE]
\* faulty variant: drop_remainder=True on the test dataset
TestPipelineDropRemainder(n, source) ==
  [source |-> source, map |-> TRUE, shuffle |-> 0,
   batch |-> BatchSize, drop |-> TRUE, prefetch |-> TRUE]
\* test: map(load_image).batch(BATCH_SIZE, drop_remainder=False).prefetch()
TestPipeline(n, source) ==
  [source |-> source, map |-> TRUE, shuffle |-> 0,
   batch |-> BatchSize, drop |-> FALSE, prefetch |-> TRUE]

\* the splits a notebook builds a dataset for (the ViT notebook builds no test dataset)
BuiltSplits(n) == IF n = "vit" THEN {"train", "validation"} ELSE Splits

Pipeline(n, s, source) ==
  IF s = "train" THEN TrainPipeline(n, source)
  ELSE IF s = "validation" THEN ValidationPipeline(n, source)
  ELSE TestPipeline(n, source)

\* how often each file has been opened and decoded so far
Decoded(path) == IF path \in DOMAIN decodes THEN decodes[path] ELSE 0

\* faulty variant: a decoded image is kept and not decoded again
CountDecodesCached(paths) ==
  [x \in DOMAIN decodes \cup paths |-> IF Decoded(x) = 0 /\ x \in paths THEN 1 ELSE Decoded(x)]
\* each of the paths is opened and decoded once more
CountDecodes(paths) ==
  [x \in DOMAIN decodes \cup paths |-> Decoded(x) + IF x \in paths THEN 1 ELSE 0]

PathsOf(s) == {image_paths[s][i] : i \in 1..Len(image_paths[s])}

\* pil_loadimg(path): the file opened, decoded and closed again
PilLoadimg(path) == [file |-> path]

\* pil_loader(imglist): every image of the list, in list order
PilLoader(imglist) == [i \in 1..Len(imglist) |-> PilLoadimg(imglist[i])]

\* the splits a notebook decodes in full before it builds its datasets
PreloadedSplits(n) == IF n = "vit" THEN {"train", "validation"} ELSE {}

\* ViT: inputs_train, inputs_validation = feature_extractor(images=pil_loader(...))
Preload ==
  /\ Running
  /\ pc = "build"
  /\ PreloadedSplits(nb) # {}
  /\ DOMAIN inputs = {}
  /\ inputs' = [s \in PreloadedSplits(nb) |-> PilLoader(image_paths[s])]
  /\ decodes' = CountDecodes(UNION {PathsOf(s) : s \in PreloadedSplits(nb)})
  /\ UNCHANGED <<nb, fs, image_paths, label_names, label_to_index, image_labels,
                 datasets, pc, error, it, delivered, epoch, epoch_log, produced>>
  /\ UNCHANGED <<corrupt, pass_log, mp, asm, pf, th, round>>
  /\ UNCHANGED <<loaderVars, tuneVars, prior>>

BuildDatasets ==
  /\ Running
  /\ pc = "build"
  /\ DOMAIN inputs = PreloadedSplits(nb)
  /\ datasets' = [s \in BuiltSplits(nb) |->
                    Pipeline(nb, s, FromTensorSlices(image_paths[s], image_labels[s]))]
  /\ pc' = IF nb = "vit" THEN "fit_train" ELSE "take1"
  /\ epoch' = 1
  /\ UNCHANGED <<nb, fs, image_paths, label_names, label_to_index, image_labels,
                 error, it, delivered, epoch_log, produced>>
  /\ UNCHANGED <<corrupt, inputs, decodes, pass_log, mp, asm, pf, th, round>>
  /\ UNCHANGED <<loaderVars, tuneVars, prior>>

----------------------------------------------------------------------------
(* One pass of a consumer over a dataset                                   *)

NoIter == [ds |-> "none", pos |-> 0, buf |-> {}, ended |-> FALSE]

\* map(load_image, num_parallel_calls): the next source position to hand to
\* load_image, the invocations running, the results not yet handed on
NoMap == [next |-> 0, inflight |-> {}, done |-> {}, overtaken |-> FALSE]

\* prefetch(AUTOTUNE): the batches held ahead of the consumer and the depth in force
NoPrefetch == [buf |-> <<>>, limit |-> 1]

\* the prefetch thread and the consumer of an open iterator
NoThreads == [started |-> FALSE, prod |-> "idle", cons |-> "idle",
              cancelled |-> FALSE, requests |-> 0, failed |-> 0]

\* the element the stages before shuffle hand on for source position i
Upstream(p, i) == IF p.map THEN LoadImage(p.source[i]) ELSE
                    [image |-> [file |-> p.source[i].path], label |-> p.source[i].label]

\* faulty variant: a buffer that holds one element more than asked for
BufferSizeOneMore(p) == IF p.shuffle = 0 THEN 1 ELSE p.shuffle + 1
\* a dataset without shuffle() hands elements on one by one
BufferSize(p) == IF p.shuffle = 0 THEN 1 ELSE p.shuffle

Min(a, b) == IF a < b THEN a ELSE b

\* shuffle: the buffer is topped up from upstream before an element is drawn
Fill(p, st) ==
  LET m == Min(BufferSize(p) - Cardinality(st.buf), Len(p.source) - st.pos)
  IN [st EXCEPT !.pos = st.pos + m,
                !.buf = st.buf \cup {Upstream(p, i) : i \in (st.pos + 1)..(st.pos + m)}]

\* batch: up to n elements drawn from the shuffle buffer, each at random
RECURSIVE PullN(_, _, _)
PullN(p, st, n) ==
  IF n = 0 THEN {[elems |-> <<>>, st |-> st]}
  ELSE LET f == Fill(p, st)
       IN IF f.buf = {} THEN {[elems |-> <<>>, st |-> f]}
          ELSE UNION {{[elems |-> <<x>> \o r.elems, st |-> r.st] :
                         r \in PullN(p, [f EXCEPT !.buf = f.buf \ {x}], n - 1)} :
                      x \in f.buf}

\* the dataset a cell iterates
DatasetOf(cell, n) ==
  IF cell \in {"take1", "fit_train"} THEN "train"
  ELSE IF cell = "fit_validation" THEN "validation"
  ELSE IF n = "vit" THEN "validation" ELSE "test"

IterCells == {"take1", "fit_train", "fit_validation", "evaluate"}

BeginPass ==
  /\ Running
  /\ pc \in IterCells
  /\ it.ds = "none"
  /\ it' = [NoIter EXCEPT !.ds = DatasetOf(pc, nb)]
  /\ delivered' = <<>>
  /\ UNCHANGED <<nb, fs, image_paths, label_names, label_to_index, image_labels,
                 datasets, pc, error, epoch, epoch_log, produced>>
  /\ UNCHANGED <<corrupt, inputs, decodes, pass_log, mp, asm, pf, th, round>>
  /\ UNCHANGED <<loaderVars, tuneVars, prior>>

\* take(1) ends the sequence after one batch
TakeLimitReached == pc = "take1" /\ Len(delivered) >= 1

NextBatch ==
  /\ Running
  /\ it.ds # "none"
  /\ ~it.ended
  /\ ~TakeLimitReached
  /\ LET p == datasets[it.ds]
     IN \E r \in PullN(p, it, p.batch) :
          /\ IF Len(r.elems) = p.batch \/ (Len(r.elems) > 0 /\ ~p.drop)
             THEN /\ delivered' = Append(delivered, r.elems)
                  /\ produced' = produced + 1
                  /\ it' = r.st
             ELSE /\ it' = [r.st EXCEPT !.ended = TRUE]
                  /\ UNCHANGED <<delivered, produced>>
          /\ decodes' = IF p.map
                        THEN CountDecodes({p.source[i].path : i \in (it.pos + 1)..r.st.pos})
                        ELSE decodes
  /\ UNCHANGED <<nb, fs, image_paths, label_names, label_to_index, image_labels,
                 datasets, pc, error, epoch, epoch_log>>
  /\ UNCHANGED <<corrupt, inputs, pass_log, mp, asm, pf, th, round>>
  /\ UNCHANGED <<loaderVars, tuneVars, prior>>

Flatten(batches) ==
  LET RECURSIVE F(_)
      F(b) == IF b = <<>> THEN <<>> ELSE Head(b) \o F(Tail(b))
  IN F(batches)

BagOfSeq(s) ==
  [x \in {s[i] : i \in 1..Len(s)} |-> Cardinality({i \in 1..Len(s) : s[i] = x})]

EndPass ==
  /\ Running
  /\ it.ds # "none"
  /\ it.ended \/ TakeLimitReached
  /\ it' = NoIter
  /\ delivered' = <<>>
  /\ epoch_log' = IF pc = "fit_train"
                  THEN Append(epoch_log, BagOfSeq(Flatten(delivered)))
                  ELSE epoch_log
  /\ pc' = IF pc = "take1" THEN "fit_train"
           ELSE IF pc = "fit_train" THEN "fit_validation"
           ELSE IF pc = "fit_validation"
                THEN (IF epoch < Epochs THEN "fit_train" ELSE "evaluate")
           ELSE "done"
  /\ epoch' = IF pc = "fit_validation" /\ epoch < Epochs THEN epoch + 1 ELSE epoch
  /\ pass_log' = IF it.ended /\ it.ds # "train"
                  THEN pass_log @@ (it.ds :> delivered) ELSE pass_log
  /\ UNCHANGED <<nb, fs, image_paths, label_names, label_to_index, image_labels,
                 datasets, error, produced>>
  /\ UNCHANGED <<corrupt, inputs, decodes, mp, asm, pf, th, round>>
  /\ UNCHANGED <<loaderVars, tuneVars, prior>>

----------------------------------------------------------------------------

\* load_image has not been called outside a pipeline
NoLoads == files = <<>> /\ loaded = <<>>

\* the fine-tuning cell has not run
NoTuning == layers = <<>> /\ train_layer = FALSE /\ layer_i = 0

\* the kernel before the first cell runs
InitCells ==
  /\ nb \in Notebooks
  /\ fs = <<>>
  /\ image_paths = <<>>
  /\ label_names = <<>>
  /\ label_to_index = <<>>
  /\ image_labels = <<>>
  /\ datasets = <<>>
  /\ pc = "paths_train"
  /\ error = NoError
  /\ it = NoIter
  /\ delivered = <<>>
  /\ epoch = 0
  /\ epoch_log = <<>>
  /\ produced = 0
  /\ corrupt = {}
  /\ inputs = <<>>
  /\ decodes = <<>>
  /\ pass_log = <<>>
  /\ mp = NoMap
  /\ asm = <<>>
  /\ pf = NoPrefetch
  /\ th = NoThreads
  /\ round = 1

Init == InitCells /\ NoLoads /\ NoTuning /\ prior = <<>>

\* the whole notebook, over snapshots that hold every class directory
Next ==
  \/ \E s \in Splits : GetPaths(s, PlainSnapshots)
  \/ LabelNames
  \/ \E s \in Splits : GetLabels(s)
  \/ Preload
  \/ BuildDatasets
  \/ BeginPass
  \/ NextBatch
  \/ EndPass

Spec == Init /\ [][Next]_vars

\* the indexing cells, over snapshots with missing, empty and non-directory entries
NextIndex ==
  \/ \E s \in Splits : GetPaths(s, RichSnapshots[s])
  \/ LabelNames
  \/ \E s \in Splits : GetLabels(s)

\* get_paths, label_names and get_labels are the same text in the three
\* notebooks and read nothing else of them
InitIndex == Init /\ nb = "dvc"

SpecIndex == InitIndex /\ [][NextIndex]_vars

\* The indexing cells run a second time in the same kernel, over the same
\* directories: image_paths = dict() and image_labels = dict() start empty
\* again, label_names and label_to_index stay until their cell assigns them.
\* What the first run indexed is kept aside in prior.
Rerun ==
  /\ Running
  /\ pc = "build"
  /\ prior = <<>>
  /\ prior' = [paths |-> image_paths, labels |-> image_labels]
  /\ image_paths' = <<>>
  /\ image_labels' = <<>>
  /\ pc' = "paths_train"
  /\ UNCHANGED <<nb, fs, label_names, label_to_index, datasets, error,
                 it, delivered, epoch, epoch_log, produced>>
  /\ UNCHANGED <<corrupt, inputs, decodes, pass_log, stageVars, round>>
  /\ UNCHANGED <<loaderVars, tuneVars>>

\* the indexing cells, run twice, over directories that hold plain files
\* next to the class directories and directories inside them
NextScan ==
  \/ \E s \in Splits : GetPaths(s, DeepSnapshots)
  \/ LabelNames
  \/ \E s \in Splits : GetLabels(s)
  \/ Rerun

SpecScan == InitIndex /\ [][NextScan]_vars

----------------------------------------------------------------------------
(* The stages of an open iterator, step by step: map() runs load_image on  *)
(* several elements at once, the prefetch thread assembles batches ahead   *)
(* of the consumer, the consumer asks for one batch at a time              *)

indexVars == <<nb, fs, image_paths, label_names, label_to_index, image_labels, datasets>>

\* faulty variant: a file that cannot be decoded yields an image all the same
UnreadableIgnored(path) == FALSE

\* the files found to be unreadable or undecodable: what a file holds shows
\* when it is first opened, and at most one file of the tree is bad
Unreadable(path) == path \in corrupt

\* faulty variant: a sample is handed on while load_image still runs on it
MapReadyNoWait(m, pos) == IF pos + 1 \in m.done \cup m.inflight THEN {pos + 1} ELSE {}

\* faulty variant: results handed on as they complete
MapReadyAnyOrder(m, pos) == m.done
\* map(): results are handed on in the order of the elements
MapReady(m, pos) == IF pos + 1 \in m.done THEN {pos + 1} ELSE {}

BatchItem(elems) == [kind |-> "batch", elems |-> elems, at |-> 0]
ErrorItem(i) == [kind |-> "error", elems |-> <<>>, at |-> i]
EndItem == [kind |-> "end", elems |-> <<>>, at |-> 0]

\* the consumer asks the iterator for its next batch; the first request
\* starts the threads of the stages
ConsumerRequest ==
  /\ Running
  /\ it.ds # "none"
  /\ datasets[it.ds].prefetch
  /\ ~th.cancelled /\ ~it.ended /\ ~TakeLimitReached
  /\ th.cons = "idle"
  /\ th' = [th EXCEPT !.cons = "waiting", !.started = TRUE, !.requests = @ + 1]
  /\ UNCHANGED <<indexVars, pc, error, it, delivered, epoch, epoch_log, produced,
                 corrupt, inputs, decodes, pass_log, mp, asm, pf, round>>
  /\ UNCHANGED <<loaderVars, tuneVars, prior>>

\* faulty variant: no limit on the invocations running
MapBusyNever(m) == FALSE
\* faulty variant: map() never finds a free slot and starts no invocation
MapBusyAlways(m) == TRUE
\* map(): no new invocation while num_parallel_calls results are outstanding
MapBusy(m) == Cardinality(m.inflight) + Cardinality(m.done) >= NumParallelCalls

\* map() hands the next element to load_image on a worker
MapSubmit ==
  /\ it.ds # "none"
  /\ th.started /\ ~th.cancelled
  /\ datasets[it.ds].map
  /\ mp.next < Len(datasets[it.ds].source)
  /\ ~MapBusy(mp)
  /\ mp' = [mp EXCEPT !.next = @ + 1, !.inflight = @ \cup {mp.next + 1}]
  /\ LET path == datasets[it.ds].source[mp.next + 1].path
     IN /\ decodes' = CountDecodes({path})
        /\ \/ corrupt' = corrupt
           \/ /\ Decoded(path) = 0
              /\ corrupt = {}
              /\ corrupt' = {path}
  /\ UNCHANGED <<indexVars, pc, error, it, delivered, epoch, epoch_log, produced,
                 inputs, pass_log, asm, pf, th, round>>
  /\ UNCHANGED <<loaderVars, tuneVars, prior>>

\* one load_image invocation returns, whichever it is
MapFinish ==
  /\ \E i \in mp.inflight :
       mp' = [mp EXCEPT !.inflight = @ \ {i},
                        !.done = IF th.cancelled THEN @ ELSE @ \cup {i},
                        !.overtaken = @ \/ (\E j \in mp.inflight : j < i)]
  /\ UNCHANGED <<indexVars, pc, error, it, delivered, epoch, epoch_log, produced,
                 corrupt, inputs, decodes, pass_log, asm, pf, th, round>>
  /\ UNCHANGED <<loaderVars, tuneVars, prior>>

\* faulty variant: the prefetch thread never waits for room
PrefetchFullNever(q) == FALSE
\* prefetch(): the thread asks for a batch only while the buffer is below its depth
PrefetchFull(q) == Len(q.buf) >= q.limit

\* faulty variant: no prefetch thread, a batch is put together only while
\* the consumer waits for it
ProducerRunsOnDemand ==
  /\ it.ds # "none"
  /\ th.started /\ ~th.cancelled
  /\ th.cons = "waiting"
  /\ th.prod = "busy" \/ (th.prod = "idle" /\ ~PrefetchFull(pf))
\* the prefetch thread is inside a call for a batch, or may start one
ProducerRuns ==
  /\ it.ds # "none"
  /\ th.started /\ ~th.cancelled
  /\ th.prod = "busy" \/ (th.prod = "idle" /\ ~PrefetchFull(pf))

\* shuffle() takes the next result of map() into its buffer; a failed
\* load_image ends the call for the batch with that error
ShuffleFill ==
  /\ ProducerRuns
  /\ LET p == datasets[it.ds]
     IN /\ Cardinality(it.buf) < BufferSize(p)
        /\ it.pos < Len(p.source)
        /\ \E i \in MapReady(mp, it.pos) :
             /\ mp' = [mp EXCEPT !.done = @ \ {i}]
             /\ IF Unreadable(p.source[i].path)
                THEN /\ it' = [it EXCEPT !.pos = @ + 1]
                     /\ pf' = [pf EXCEPT !.buf = Append(@, ErrorItem(i))]
                     /\ asm' = <<>>
                     /\ th' = [th EXCEPT !.prod = "idle"]
                ELSE /\ it' = [it EXCEPT !.pos = @ + 1, !.buf = @ \cup {Upstream(p, i)}]
                     /\ th' = [th EXCEPT !.prod = "busy"]
                     /\ UNCHANGED <<pf, asm>>
  /\ UNCHANGED <<indexVars, pc, error, delivered, epoch, epoch_log, produced,
                 corrupt, inputs, decodes, pass_log, round>>
  /\ UNCHANGED <<loaderVars, tuneVars, prior>>

\* batch() draws the next element from shuffle(); a full batch goes to the
\* prefetch buffer
ShuffleDraw ==
  /\ ProducerRuns
  /\ LET p == datasets[it.ds]
     IN /\ Cardinality(it.buf) = BufferSize(p) \/ it.pos = Len(p.source)
        /\ \E x \in it.buf :
             /\ it' = [it EXCEPT !.buf = @ \ {x}]
             /\ IF Len(asm) + 1 = p.batch
                THEN /\ pf' = [pf EXCEPT !.buf = Append(@, BatchItem(Append(asm, x)))]
                     /\ asm' = <<>>
                     /\ th' = [th EXCEPT !.prod = "idle"]
                ELSE /\ asm' = Append(asm, x)
                     /\ th' = [th EXCEPT !.prod = "busy"]
                     /\ UNCHANGED pf
  /\ UNCHANGED <<indexVars, pc, error, delivered, epoch, epoch_log, produced,
                 corrupt, inputs, decodes, pass_log, mp, round>>
  /\ UNCHANGED <<loaderVars, tuneVars, prior>>

\* batch() finds its input exhausted: the short batch is handed on unless
\* drop_remainder, then the end of the sequence
BatchEnd ==
  /\ ProducerRuns
  /\ LET p == datasets[it.ds]
     IN /\ it.buf = {} /\ it.pos = Len(p.source)
        /\ IF asm # <<>> /\ ~p.drop
           THEN /\ pf' = [pf EXCEPT !.buf = Append(@, BatchItem(asm))]
                /\ th' = [th EXCEPT !.prod = "idle"]
           ELSE /\ pf' = [pf EXCEPT !.buf = Append(@, EndItem)]
                /\ th' = [th EXCEPT !.prod = "finished"]
  /\ asm' = <<>>
  /\ UNCHANGED <<indexVars, pc, error, it, delivered, epoch, epoch_log, produced,
                 corrupt, inputs, decodes, pass_log, mp, round>>
  /\ UNCHANGED <<loaderVars, tuneVars, prior>>

\* AUTOTUNE: the runtime sets the depth of the prefetch buffer while it runs
Autotune ==
  /\ it.ds # "none"
  /\ th.started /\ ~th.cancelled
  /\ \E d \in 1..MaxPrefetch :
       /\ d # pf.limit
       /\ pf' = [pf EXCEPT !.limit = d]
  /\ UNCHANGED <<indexVars, pc, error, it, delivered, epoch, epoch_log, produced,
                 corrupt, inputs, decodes, pass_log, mp, asm, th, round>>
  /\ UNCHANGED <<loaderVars, tuneVars, prior>>

\* faulty variant: an error waiting in the buffer overtakes the batches before it
FrontErrorFirst(buf) ==
  IF \E k \in 1..Len(buf) : buf[k].kind = "error"
  THEN CHOOSE k \in 1..Len(buf) : buf[k].kind = "error"
  ELSE 1
\* prefetch(): the buffer is handed out first in, first out
Front(buf) == 1

\* the waiting consumer takes the head of the prefetch buffer: a batch, the
\* end of the sequence, or the error raised for a batch
ConsumerReceive ==
  /\ Running
  /\ it.ds # "none"
  /\ th.cons = "waiting"
  /\ pf.buf # <<>>
  /\ LET k == Front(pf.buf)
         x == pf.buf[k]
     IN /\ pf' = [pf EXCEPT !.buf = SubSeq(@, 1, k - 1) \o SubSeq(@, k + 1, Len(@))]
        /\ IF x.kind = "batch"
           THEN /\ delivered' = Append(delivered, x.elems)
                /\ produced' = produced + 1
                /\ th' = [th EXCEPT !.cons = "idle"]
                /\ UNCHANGED <<it, error>>
           ELSE IF x.kind = "end"
           THEN /\ it' = [it EXCEPT !.ended = TRUE]
                /\ th' = [th EXCEPT !.cons = "idle"]
                /\ UNCHANGED <<delivered, produced, error>>
           ELSE /\ error' = [kind |-> "DecodeFailure", cell |-> pc]
                /\ th' = [th EXCEPT !.cons = "idle", !.cancelled = TRUE, !.failed = x.at]
                /\ UNCHANGED <<delivered, produced, it>>
  /\ UNCHANGED <<indexVars, pc, epoch, epoch_log,
                 corrupt, inputs, decodes, pass_log, mp, asm, round>>
  /\ UNCHANGED <<loaderVars, tuneVars, prior>>

\* the consumer is done with the iterator, at the end of the sequence or
\* after the one batch of take(1): the iterator is cancelled
Cancel ==
  /\ Running
  /\ it.ds # "none"
  /\ ~th.cancelled
  /\ th.cons = "idle"
  /\ it.ended \/ TakeLimitReached
  /\ th' = [th EXCEPT !.cancelled = TRUE]
  /\ UNCHANGED <<indexVars, pc, error, it, delivered, epoch, epoch_log, produced,
                 corrupt, inputs, decodes, pass_log, mp, asm, pf, round>>
  /\ UNCHANGED <<loaderVars, tuneVars, prior>>

\* faulty variant: the iterator released with invocations still running
QuiescentAlways(m) == TRUE
\* a cancelled iterator waits for the invocations that are running
Quiescent(m) == m.inflight = {}

\* the cancelled iterator is released with everything it holds; the notebook
\* goes on to its next pass unless an error stopped it
ReleaseIterator ==
  /\ it.ds # "none"
  /\ th.cancelled
  /\ Quiescent(mp)
  /\ it' = NoIter
  /\ mp' = [NoMap EXCEPT !.inflight = mp.inflight]
  /\ asm' = <<>>
  /\ pf' = NoPrefetch
  /\ th' = NoThreads
  /\ IF Running
     THEN /\ delivered' = <<>>
          /\ pass_log' = IF it.ended /\ it.ds # "train"
                  THEN pass_log @@ (it.ds :> delivered) ELSE pass_log
          /\ pc' = IF pc = "take1" THEN "fit_train"
                   ELSE IF pc = "fit_train" THEN "fit_validation"
                   ELSE IF pc = "fit_validation"
                        THEN (IF epoch < Epochs THEN "fit_train" ELSE "evaluate")
                   ELSE IF round < Rounds THEN "fit_train" ELSE "done"
          /\ epoch' = IF pc = "fit_validation" /\ epoch < Epochs THEN epoch + 1
                      ELSE IF pc = "evaluate" THEN 1 ELSE epoch
          /\ round' = IF pc = "evaluate" /\ round < Rounds THEN round + 1 ELSE round
     ELSE UNCHANGED <<delivered, pass_log, pc, epoch, round>>
  /\ UNCHANGED <<indexVars, error, epoch_log, produced, corrupt, inputs, decodes>>
  /\ UNCHANGED <<loaderVars, tuneVars, prior>>

\* a directory tree that passes the count check of every split
TreeOf(s) ==
  <<[name |-> cat, kind |-> "dir", n |-> 1, sub |-> 0],
    [name |-> dog, kind |-> "dir", n |-> nimages[s] - 1, sub |-> 0]>>

\* the notebooks whose datasets decode in map() and prefetch
LazyNotebooks == {"dvc", "gtsrb"}

\* the state after the datasets cell
InitPipe ==
  /\ nb \in LazyNotebooks
  /\ fs = [s \in Splits |-> TreeOf(s)]
  /\ image_paths = [s \in Splits |-> Glob2(s, fs[s])]
  /\ label_names = SortNames(DirNames(fs["train"]))
  /\ label_to_index = Enumerate(label_names)
  /\ image_labels = [s \in Splits |->
                       [i \in 1..Len(image_paths[s]) |->
                          label_to_index[ParentName(image_paths[s][i])]]]
  /\ datasets = [s \in BuiltSplits(nb) |->
                   Pipeline(nb, s, FromTensorSlices(image_paths[s], image_labels[s]))]
  /\ pc = "take1"
  /\ error = NoError
  /\ it = NoIter
  /\ delivered = <<>>
  /\ epoch = 1
  /\ epoch_log = <<>>
  /\ produced = 0
  /\ corrupt = {}
  /\ inputs = <<>>
  /\ decodes = <<>>
  /\ pass_log = <<>>
  /\ mp = NoMap
  /\ asm = <<>>
  /\ pf = NoPrefetch
  /\ th = NoThreads
  /\ round = 1
  /\ NoLoads /\ NoTuning /\ prior = <<>>

NextPipe ==
  \/ BeginPass
  \/ ConsumerRequest
  \/ MapSubmit
  \/ MapFinish
  \/ ShuffleFill
  \/ ShuffleDraw
  \/ BatchEnd
  \/ Autotune
  \/ ConsumerReceive
  \/ Cancel
  \/ ReleaseIterator

SpecPipe == InitPipe /\ [][NextPipe]_vars

\* workers run to completion and a cancelled iterator is released
SpecPipeFair ==
  SpecPipe /\ WF_vars(MapFinish) /\ WF_vars(ReleaseIterator)

\* every thread is scheduled: the cell that runs, the consumer, the workers
\* of map() and the prefetch thread each take the step they are ready for;
\* nothing is assumed of the runtime's changes to the prefetch depth
SpecPipeLive ==
  /\ SpecPipe
  /\ WF_vars(BeginPass)
  /\ WF_vars(ConsumerRequest)
  /\ WF_vars(ConsumerReceive)
  /\ WF_vars(Cancel)
  /\ WF_vars(ReleaseIterator)
  /\ WF_vars(MapSubmit)
  /\ WF_vars(MapFinish)
  /\ WF_vars(ShuffleFill)
  /\ WF_vars(ShuffleDraw)
  /\ WF_vars(BatchEnd)

----------------------------------------------------------------------------
(* load_image in detail: what a call reads, decodes and returns.  An image *)
(* file is known by its height and width; a decoded image also carries the *)
(* number of channels and the file content its pixels come from, a resized *)
(* image the image it was sampled from.                                    *)

\* the largest original side length, in multiples of the larger target side
MaxScale == 2
\* calls of load_image followed
MaxLoads == 3

\* INPUT_IMAGE_SIZE = [256, 256] (dogs-vs-cats), [80, 80] (traffic signs)
INPUT_IMAGE_SIZE(n) == IF n = "dvc" THEN <<256, 256>> ELSE <<80, 80>>

\* original side lengths: below, at and above the target sizes
Sides == {1, 80, 256} \cup {256 * k : k \in 2..MaxScale}

Contents == [height : Sides, width : Sides]

\* the files load_image is called on
ProbePaths == {<<"train", cat, 1>>, <<"train", dog, 1>>}

\* faulty variant: the bytes of the file read by the call before are returned
ReadFileStale(path) ==
  IF loaded = <<>> THEN files[path] ELSE files[loaded[Len(loaded)].path]
\* tf.io.read_file(path)
ReadFile(path) == files[path]

\* tf.image.decode_jpeg(image, channels=3)
DecodeJpeg(content) ==
  [height |-> content.height, width |-> content.width, channels |-> 3, of |-> content]

\* _load_image: np.array(Image.open(path.numpy())) of an RGB image
PilOpen(path) ==
  [height |-> files[path].height, width |-> files[path].width, channels |-> 3,
   of |-> files[path]]

\* faulty variant: tf.image.resize(..., preserve_aspect_ratio=True)
ResizeKeepAspect(image, size) ==
  [height |-> IF image.height * size[2] >= image.width * size[1] THEN size[1]
              ELSE (image.height * size[2]) \div image.width,
   width |-> IF image.height * size[2] >= image.width * size[1]
             THEN (image.width * size[1]) \div image.height
             ELSE size[2],
   channels |-> image.channels, from |-> image]
\* tf.image.resize(image, size): size[1] rows and size[2] columns sampled from image
Resize(image, size) ==
  [height |-> size[1], width |-> size[2], channels |-> image.channels, from |-> image]

\* load_image(path, label) of notebook n
load_image(n, path, label) ==
  IF n = "dvc"
  THEN [image |-> Resize(DecodeJpeg(ReadFile(path)), INPUT_IMAGE_SIZE(n)), label |-> label]
  ELSE [image |-> Resize(PilOpen(path), INPUT_IMAGE_SIZE(n)), label |-> label]

\* one call of load_image, its arguments and its result noted in call order
CallLoadImage(path, label) ==
  /\ Len(loaded) < MaxLoads
  /\ loaded' = Append(loaded, [path |-> path, label |-> label,
                               out |-> load_image(nb, path, label)])
  /\ UNCHANGED <<indexVars, pc, error, it, delivered, epoch, epoch_log, produced,
                 corrupt, inputs, decodes, pass_log, stageVars, round>>
  /\ UNCHANGED <<files, tuneVars, prior>>

\* any two image files, of any of the side lengths
InitLoad ==
  /\ InitCells
  /\ nb \in LazyNotebooks
  /\ files \in [ProbePaths -> Contents]
  /\ loaded = <<>>
  /\ NoTuning
  /\ prior = <<>>

NextLoad == \E path \in ProbePaths, label \in 0..1 : CallLoadImage(path, label)

SpecLoad == InitLoad /\ [][NextLoad]_vars

----------------------------------------------------------------------------
(* The fine-tuning cell: the loop over model.layers that freezes the lower *)
(* layers of the model before it is compiled and trained again.            *)

\* layers of the model followed
MaxLayers == 3

\* pretrained = 'VGG16': finetuning_first_trainable_layer = "block5_conv1";
\* the traffic-sign notebook writes the same name into the loop itself
finetuning_first_trainable_layer == "block5_conv1"

\* layer names are unique within a model
LayerNames == {"block4_pool", "block5_conv1", "block5_conv2", "dense"}

\* model.layers: any layers in any order, trainable or not
LayerLists ==
  UNION {{l \in [1..n -> [name : LayerNames, trainable : BOOLEAN]] :
            \A i, j \in 1..n : l[i].name = l[j].name => i = j} : n \in 0..MaxLayers}

\* faulty variant: train_layer = (layer.name == finetuning_first_trainable_layer)
TrainFromNameOnly(flag, layer) == layer.name = finetuning_first_trainable_layer
\* if layer.name == finetuning_first_trainable_layer: train_layer = True
TrainFrom(flag, layer) == flag \/ layer.name = finetuning_first_trainable_layer

\* train_layer = False, and the loop is entered
TuneStart ==
  /\ layer_i = 0
  /\ train_layer' = FALSE
  /\ layer_i' = 1
  /\ UNCHANGED <<indexVars, pc, error, it, delivered, epoch, epoch_log, produced,
                 corrupt, inputs, decodes, pass_log, stageVars, round>>
  /\ UNCHANGED <<layers, loaderVars, prior>>

\* one turn of the loop: the name test, then layer.trainable = train_layer
TuneStep ==
  /\ layer_i \in 1..Len(layers)
  /\ train_layer' = TrainFrom(train_layer, layers[layer_i])
  /\ layers' = [layers EXCEPT ![layer_i].trainable = train_layer']
  /\ layer_i' = layer_i + 1
  /\ UNCHANGED <<indexVars, pc, error, it, delivered, epoch, epoch_log, produced,
                 corrupt, inputs, decodes, pass_log, stageVars, round>>
  /\ UNCHANGED <<loaderVars, prior>>

\* the loop has run over every layer
TuneDone == layer_i = Len(layers) + 1

InitTune ==
  /\ InitCells
  /\ nb \in LazyNotebooks
  /\ NoLoads
  /\ prior = <<>>
  /\ layers \in LayerLists
  /\ train_layer \in BOOLEAN
  /\ layer_i = 0

NextTune == TuneStart \/ TuneStep

SpecTune == InitTune /\ [][NextTune]_vars

----------------------------------------------------------------------------
(* Properties                                                              *)

\* a cell has been run: left behind, or stopped in by an error
Attempted(cell) == Rank(pc) > Rank(cell) \/ (pc = cell /\ error # NoError)

\* number of entries two levels below a split directory
RECURSIVE EnumeratedCount(_)
EnumeratedCount(listing) ==
  IF listing = <<>> THEN 0
  ELSE (IF Head(listing).kind = "dir" THEN Head(listing).n + Head(listing).sub ELSE 0)
         + EnumeratedCount(Tail(listing))

\* names of the class directories of a listing, holding at least k entries
ClassDirs(listing, k) ==
  {listing[i].name : i \in {j \in 1..Len(listing) : listing[j].kind = "dir" /\ listing[j].n >= k}}

\* position of a name among the class directories of the training split
LexIndex(name) ==
  Cardinality({d \in ClassDirs(fs["train"], 0) : LexLess(d, name)})

\* C1: get_paths(split) returns a list only when the number of enumerated
\* entries equals nimages[split], and the list then has that many entries;
\* with any other number it fails with the count assertion and stores no list.
C1_CountCheck ==
  /\ DOMAIN image_paths \subseteq DOMAIN fs
  /\ \A s \in DOMAIN fs :
       /\ s \in DOMAIN image_paths =>
            /\ EnumeratedCount(fs[s]) = nimages[s]
            /\ Len(image_paths[s]) = nimages[s]
       /\ EnumeratedCount(fs[s]) # nimages[s] =>
            /\ s \notin DOMAIN image_paths
            /\ error = [kind |-> "CountMismatch", cell |-> PathsCell(s)]

C1_Witness ==
  /\ "test" \in DOMAIN fs
  /\ EnumeratedCount(fs["test"]) = nimages["test"] - 1
  /\ error.kind = "CountMismatch"
  /\ DOMAIN image_paths = {"train", "validation"}

\* C2: when the count of any split differs from the expected one, the
\* notebook stops with CountMismatch and, in that and every later state, no
\* label is assigned, no dataset is built, and no batch has been produced.
C2_MismatchBeforeAnyBatch ==
  (\E s \in DOMAIN fs : EnumeratedCount(fs[s]) # nimages[s]) =>
     /\ error.kind = "CountMismatch"
     /\ image_labels = <<>>
     /\ datasets = <<>>
     /\ it = NoIter
     /\ produced = 0

C2_Witness ==
  /\ error = [kind |-> "CountMismatch", cell |-> "paths_test"]
  /\ EnumeratedCount(fs["test"]) # nimages["test"]
  /\ produced = 0

\* C3: label_to_index maps the class directories of the training split onto
\* 0..n-1 in lexicographic name order, whatever the listing order was
\* (cat -> 0, dog -> 1 for {dog, cat}).
C3_LabelToIndexSorted ==
  Attempted("label_names") =>
    LET dirs == ClassDirs(fs["train"], 0)
    IN /\ DOMAIN label_to_index = dirs
       /\ \A d \in dirs : label_to_index[d] = LexIndex(d)
       /\ {label_to_index[d] : d \in dirs} = 0..(Cardinality(dirs) - 1)
       /\ \A d, e \in dirs : label_to_index[d] = label_to_index[e] => d = e
       /\ dirs = {cat, dog} => label_to_index[cat] = 0 /\ label_to_index[dog] = 1
       /\ dirs = {cat, cow, dog} =>
            label_to_index[cat] = 0 /\ label_to_index[cow] = 1 /\ label_to_index[dog] = 2

C3_Witness ==
  /\ Attempted("label_names")
  /\ DirNames(fs["train"]) = <<dog, cow, cat>>
  /\ label_to_index[cat] = 0

\* C4: every stored label is the index of the parent directory name of the
\* path at the same position, in the one label space taken from the
\* training split, which get_labels leaves as it was computed.
C4_LabelsFollowParent ==
  /\ \A s \in DOMAIN image_labels :
       /\ Len(image_labels[s]) = Len(image_paths[s])
       /\ \A i \in 1..Len(image_paths[s]) :
            /\ image_paths[s][i][2] \in ClassDirs(fs["train"], 0)
            /\ image_labels[s][i] = LexIndex(image_paths[s][i][2])
  /\ Attempted("labels_train") =>
       /\ label_names = SortedSeq(label_names)
       /\ {label_names[i] : i \in 1..Len(label_names)} = ClassDirs(fs["train"], 0)
       /\ \A i \in 1..Len(label_names) : label_to_index[label_names[i]] = i - 1

C4_Witness ==
  /\ DOMAIN image_labels = Splits
  /\ image_paths["validation"][1][2] = dog
  /\ image_labels["validation"][1] > 0
  /\ image_labels["test"][1] = 0

\* C5: a validation or test sample whose parent directory is no class
\* directory of the training split makes get_labels fail with UnknownLabel,
\* and no label list is stored for that split.
C5_UnknownLabelFails ==
  \A s \in {"validation", "test"} :
    (/\ Attempted(LabelsCell(s))
     /\ \E i \in 1..Len(image_paths[s]) :
          image_paths[s][i][2] \notin ClassDirs(fs["train"], 0)) =>
       /\ error = [kind |-> "UnknownLabel", cell |-> LabelsCell(s)]
       /\ s \notin DOMAIN image_labels

C5_Witness ==
  /\ error = [kind |-> "UnknownLabel", cell |-> "labels_test"]
  /\ DOMAIN image_labels = {"train", "validation"}

\* C6 as stated: once labels have been taken for a split, every class
\* directory of that split, an empty one included, is in the label space,
\* or indexing has failed.
C6_Original ==
  \A s \in Splits :
    (Attempted(LabelsCell(s)) /\ error = NoError) =>
       ClassDirs(fs[s], 0) \subseteq ClassDirs(fs["train"], 0)

\* C6, amended: every class directory that holds at least one entry is in
\* the label space once labels have been taken for its split, and a class
\* directory of validation or test outside the label space that holds at
\* least one entry makes indexing fail; an empty one goes unnoticed.
C6_NonEmptyClassDirsKnown ==
  \A s \in Splits :
    Attempted(LabelsCell(s)) =>
       \/ ClassDirs(fs[s], 1) \subseteq ClassDirs(fs["train"], 0)
       \/ /\ error = [kind |-> "UnknownLabel", cell |-> LabelsCell(s)]
          /\ s \notin DOMAIN image_labels

C6_Witness ==
  /\ pc = "build"
  /\ error = NoError
  /\ cow \in ClassDirs(fs["validation"], 0)
  /\ cow \notin ClassDirs(fs["train"], 0)

\* a pass over the training dataset has run to the end of the sequence
TrainPassComplete == it.ds = "train" /\ it.ended

\* batches and undelivered samples of a pass that drops the remainder
FullBatches(n, b) == n \div b
Undelivered(n, b) == n - b * (n \div b)

\* the samples of a split as the datasets hand them on
SamplesOf(s) ==
  {[image |-> [file |-> image_paths[s][i]], label |-> image_labels[s][i]] :
     i \in 1..Len(image_paths[s])}

\* C7 as stated: a complete training pass yields floor(N/B) batches of
\* exactly B samples; with N=2000 and B=32 that is 62 batches and 4 samples
\* not delivered.
C7_Original ==
  TrainPassComplete =>
    /\ Len(delivered) = FullBatches(nimages["train"], BatchSize)
    /\ \A k \in 1..Len(delivered) : Len(delivered[k]) = BatchSize
    /\ FullBatches(NIMAGES_TRAIN_DVC, BATCH_SIZE_DVC) = 62
    /\ Undelivered(NIMAGES_TRAIN_DVC, BATCH_SIZE_DVC) = 4

\* C7, amended: a complete training pass over N samples yields floor(N/B)
\* batches, every batch of a training pass holds exactly B samples, and
\* N - B*floor(N/B) samples are not delivered; with N=2000 and B=32 that is
\* 62 batches and 16 samples not delivered.
C7_TrainBatches ==
  /\ it.ds = "train" => \A k \in 1..Len(delivered) : Len(delivered[k]) = BatchSize
  /\ TrainPassComplete =>
       /\ Len(delivered) = FullBatches(nimages["train"], BatchSize)
       /\ nimages["train"] - Len(Flatten(delivered)) = Undelivered(nimages["train"], BatchSize)
       /\ FullBatches(NIMAGES_TRAIN_DVC, BATCH_SIZE_DVC) = 62
       /\ Undelivered(NIMAGES_TRAIN_DVC, BATCH_SIZE_DVC) = 16

C7_Witness ==
  /\ TrainPassComplete
  /\ pc = "fit_train"
  /\ nb = "dvc"
  /\ Len(delivered) >= 1
  /\ Len(Flatten(delivered)) < nimages["train"]

\* C8: in every training pipeline the shuffle buffer is at least as large
\* as the training split, in the notebook's own numbers and in the dataset
\* that was built.
C8_Original ==
  "train" \in DOMAIN datasets =>
    /\ RealShuffleBuffer(nb) >= RealTrainSize(nb)
    /\ datasets["train"].shuffle >= Len(datasets["train"].source)

\* C9 as stated: the multisets of samples delivered in two training epochs
\* are equal.
C9_Original ==
  \A i, j \in 1..Len(epoch_log) : epoch_log[i] = epoch_log[j]

\* C9, amended: every training epoch delivers B*floor(N/B) samples of the
\* training list, none of them twice, so any two epochs deliver multisets
\* of the same size; which samples are left out with the partial final
\* batch may differ from epoch to epoch.
C9_EpochMultisets ==
  \A i \in 1..Len(epoch_log) :
    /\ IsABag(epoch_log[i])
    /\ BagToSet(epoch_log[i]) \subseteq SamplesOf("train")
    /\ \A x \in BagToSet(epoch_log[i]) : CopiesIn(x, epoch_log[i]) = 1
    /\ BagCardinality(epoch_log[i]) = BatchSize * FullBatches(nimages["train"], BatchSize)
    /\ \A j \in 1..Len(epoch_log) :
         BagCardinality(epoch_log[i]) = BagCardinality(epoch_log[j])

C9_Witness ==
  /\ Len(epoch_log) >= 2
  /\ epoch_log[1] # epoch_log[2]
  /\ BagCardinality(epoch_log[1]) = BagCardinality(epoch_log[2])

\* C10: a complete pass over the test dataset delivers every sample of the
\* test split once, in enumeration order, in batches of B with a last
\* batch of N mod B samples when B does not divide N.
C10_TestPassComplete ==
  (it.ds = "test" /\ it.ended) =>
    LET flat == Flatten(delivered)
        n == Len(image_paths["test"])
    IN /\ Len(flat) = n
       /\ \A i \in 1..n :
            /\ flat[i].image.file = image_paths["test"][i]
            /\ flat[i].label = image_labels["test"][i]
       /\ \A k \in 1..Len(delivered) :
            Len(delivered[k]) =
              IF k < Len(delivered) \/ n % BatchSize = 0 THEN BatchSize ELSE n % BatchSize

C10_Witness ==
  /\ it.ds = "test"
  /\ it.ended
  /\ Len(delivered) >= 2
  /\ Len(delivered[Len(delivered)]) = nimages["test"] % BatchSize
  /\ nimages["test"] % BatchSize # 0

\* the sample at enumeration position i of a split, as a dataset delivers it
SampleAt(s, i) ==
  [image |-> [file |-> image_paths[s][i]], label |-> image_labels[s][i]]

\* C11: the validation sequence is not shuffled: batch k of every pass holds
\* the samples at enumeration positions k*B .. k*B+B-1 in that order, a
\* complete pass has floor(N/B) batches, and the last N mod B samples are
\* in no batch of any pass.
C11_ValidationBatches ==
  it.ds = "validation" =>
    LET n == Len(image_paths["validation"])
    IN /\ \A k \in 1..Len(delivered) :
            delivered[k] = [j \in 1..BatchSize |-> SampleAt("validation", (k - 1) * BatchSize + j)]
       /\ Len(delivered) <= n \div BatchSize
       /\ it.ended => Len(delivered) = n \div BatchSize
       /\ \A i \in (BatchSize * (n \div BatchSize) + 1)..n :
            \A k \in 1..Len(delivered) : \A j \in 1..Len(delivered[k]) :
              delivered[k][j] # SampleAt("validation", i)

C11_Witness ==
  /\ it.ds = "validation"
  /\ it.ended
  /\ epoch = Epochs
  /\ Len(delivered) >= 1
  /\ Len(image_paths["validation"]) % BatchSize # 0

----------------------------------------------------------------------------
(* The staged pipeline: parallel decoding, look-ahead, errors, cancellation *)

\* the source position of a sample of split s
PosOf(s, x) == CHOOSE i \in 1..Len(image_paths[s]) : SampleAt(s, i) = x

\* the samples that have left map() and are held by a later stage or delivered
PastMap ==
  it.buf \cup {asm[j] : j \in 1..Len(asm)}
         \cup UNION {{pf.buf[k].elems[j] : j \in 1..Len(pf.buf[k].elems)} : k \in 1..Len(pf.buf)}
         \cup UNION {{delivered[k][j] : j \in 1..Len(delivered[k])} : k \in 1..Len(delivered)}

\* C12 as stated: inside every batch handed to the consumer, of whichever
\* dataset, the samples appear in the order in which they were handed to
\* load_image.
C12_Original ==
  it.ds # "none" =>
    \A k \in 1..Len(delivered) : \A i, j \in 1..Len(delivered[k]) :
      i < j => PosOf(it.ds, delivered[k][i]) < PosOf(it.ds, delivered[k][j])

\* C12: with load_image invocations running side by side and returning in
\* any order, results leave map() in the order in which the elements were
\* handed to load_image: the samples past map() are those of the first
\* source positions, and the k-th sample delivered from a dataset without
\* shuffle() is the k-th element of the source.  (In a training batch the
\* order is the one shuffle() draws, shuffle() coming after map().)
C12_DeliveredInSubmissionOrder ==
  it.ds # "none" =>
    /\ PastMap \subseteq {SampleAt(it.ds, i) : i \in 1..it.pos}
    /\ it.ds \in {"validation", "test"} =>
         LET flat == Flatten(delivered)
         IN \A i \in 1..Len(flat) : flat[i] = SampleAt(it.ds, i)

\* a batch has been delivered in a pass in which an invocation returned
\* before one submitted earlier
C12_Witness ==
  /\ it.ds \in {"validation", "test"}
  /\ mp.overtaken
  /\ Len(delivered) >= 1
  /\ Len(delivered[1]) = BatchSize

\* the samples of the batches handed to the consumer in the open pass
DeliveredSamples ==
  UNION {{delivered[k][j] : j \in 1..Len(delivered[k])} : k \in 1..Len(delivered)}

PosOfPath(s, path) == CHOOSE i \in 1..Len(image_paths[s]) : image_paths[s][i] = path

\* C13: a file that cannot be decoded makes the pass over its split fail: no
\* batch delivered in the pass holds a sample that comes after the failing
\* one, a pass reaches the end of its sequence only if every file of the
\* split was decoded, and it then has delivered every sample of the split
\* but the remainder that drop_remainder leaves out.
C13_DecodeFailureFailsPass ==
  it.ds # "none" =>
    LET p == datasets[it.ds]
        N == Len(p.source)
    IN /\ \A f \in corrupt \cap PathsOf(it.ds) : \A x \in DeliveredSamples :
            PosOf(it.ds, x) < PosOfPath(it.ds, f)
       /\ it.ended =>
            /\ corrupt \cap PathsOf(it.ds) = {}
            /\ Len(Flatten(delivered)) = IF p.drop THEN p.batch * (N \div p.batch) ELSE N

\* a pass has failed on a bad file after it had delivered a batch
C13_Witness ==
  /\ error.kind = "DecodeFailure"
  /\ it.ds # "none"
  /\ corrupt \cap PathsOf(it.ds) # {}
  /\ Len(delivered) >= 1

\* the request during which source position i is read: shuffle() reads as
\* many elements as its buffer holds before the first draw and one more
\* before each later draw, batch() makes p.batch draws for a request
RequestReading(p, i) ==
  LET d == IF i > BufferSize(p) THEN i - BufferSize(p) + 1 ELSE 1
  IN (d - 1) \div p.batch + 1

\* C14 as stated: the error is raised at the request for the batch that
\* holds the failing sample, the batch of its source position.
C14_Original ==
  (error.kind = "DecodeFailure" /\ it.ds # "none") =>
    LET p == datasets[it.ds]
        N == Len(p.source)
    IN /\ th.requests = (th.failed - 1) \div p.batch + 1
       /\ p.drop => th.failed <= p.batch * (N \div p.batch)

\* C14: the error of a failed load_image is raised at the request during
\* which the stages read the failing sample from map(), after the batches
\* of the earlier requests were delivered, and not while the error waits in
\* the prefetch buffer; no source position is handed to load_image again
\* in the pass once its result, or its error, has been taken.  Without
\* shuffle() that is the request for the batch of the sample's position,
\* or, for a sample of the dropped remainder, the request after the last
\* batch; with shuffle() it is the request that takes the sample into the
\* shuffle buffer.
C14_ErrorAtReadingRequest ==
  /\ it.ds # "none" => (mp.inflight \cup mp.done) \subseteq (it.pos + 1)..mp.next
  /\ (error.kind = "DecodeFailure" /\ it.ds # "none") =>
       /\ th.requests = RequestReading(datasets[it.ds], th.failed)
       /\ Len(delivered) = th.requests - 1
       /\ datasets[it.ds].source[th.failed].path \in corrupt

\* the first request of a training pass has failed on a sample whose
\* position lies in a later batch
C14_Witness ==
  /\ error.kind = "DecodeFailure"
  /\ it.ds = "train"
  /\ th.requests = 1
  /\ th.failed > BatchSize

\* C15: every batch handed to the consumer is complete: it has BATCH_SIZE
\* samples, or it is the short last batch of a dataset that keeps the
\* remainder, and no sample of it is still being decoded.
C15_BatchesComplete ==
  it.ds # "none" =>
    LET p == datasets[it.ds]
        N == Len(p.source)
    IN /\ \A k \in 1..Len(delivered) :
            \/ Len(delivered[k]) = p.batch
            \/ ~p.drop /\ k = N \div p.batch + 1 /\ Len(delivered[k]) = N % p.batch
       /\ \A x \in DeliveredSamples : PosOf(it.ds, x) \notin mp.inflight

\* the consumer waits for its next batch while a sample of it is being decoded
C15_Witness ==
  /\ Len(delivered) >= 1
  /\ th.cons = "waiting"
  /\ pf.buf = <<>>
  /\ mp.inflight # {}

\* C16 as stated: the look-ahead depth does not change while a sequence is iterated.
C16_Original ==
  [][(th.started /\ th'.started) => pf'.limit = pf.limit]_vars

\* C16: the batches held ahead of the consumer are at most the largest depth
\* the runtime sets, and the prefetch thread starts on a batch only while
\* fewer are held than the depth in force; the depth is set by the runtime
\* while the sequence is iterated, not by the notebook.
C16_LookAheadWithinDepth ==
  /\ [](Len(pf.buf) <= MaxPrefetch /\ pf.limit \in 1..MaxPrefetch)
  /\ [][(th.prod = "idle" /\ (th'.prod # "idle" \/ Len(pf'.buf) > Len(pf.buf)))
          => Len(pf.buf) < pf.limit]_vars

\* the buffer was filled to a depth the runtime has since lowered
C16_Witness ==
  /\ it.ds # "none"
  /\ Len(pf.buf) = MaxPrefetch
  /\ pf.limit < MaxPrefetch

\* C17: the load_image invocations running for an iterator are never more
\* than num_parallel_calls, a literal of the notebook.
C17_InFlightBounded ==
  Cardinality(mp.inflight) <= NumParallelCalls

\* as many invocations run as are allowed while elements are left to submit
C17_Witness ==
  /\ it.ds # "none"
  /\ Cardinality(mp.inflight) = NumParallelCalls
  /\ mp.next < Len(datasets[it.ds].source)

\* C18: once the consumer has stopped iterating, after the one batch of
\* take(1), at the end of the sequence or on an error, the invocations
\* still running finish and the iterator is released; when no iterator is
\* open no invocation runs, so no file is open, and no result, batch or
\* thread of an iteration is left.
C18_CancelledIsReleased ==
  /\ [](it.ds = "none" =>
          /\ mp.inflight = {} /\ mp.done = {}
          /\ pf.buf = <<>> /\ asm = <<>>
          /\ ~th.started /\ th.prod = "idle")
  /\ (th.cancelled ~> it.ds = "none")

\* take(1) has its batch and the iterator is cancelled while load_image
\* still runs on a later sample
C18_Witness ==
  /\ pc = "take1"
  /\ Running
  /\ th.cancelled
  /\ Len(delivered) = 1
  /\ mp.inflight # {}

\* C19: a dataset is iterated again after a pass over it has ended or was
\* cut short by take(1): every new iterator starts with nothing read, the
\* first element it hands to load_image is the first of the source, and a
\* pass over the validation or the test dataset delivers, batch by batch,
\* what the first complete pass over that dataset delivered.
C19_RestartFromFirstSample ==
  /\ [][(it.ds = "none" /\ it'.ds # "none") =>
          (it'.pos = 0 /\ it'.buf = {} /\ mp'.next = 0 /\ delivered' = <<>>)]_vars
  /\ [][(mp.next = 0 /\ mp'.next # 0) => mp'.inflight = {1}]_vars
  /\ [](it.ds \in DOMAIN pass_log =>
          /\ Len(delivered) <= Len(pass_log[it.ds])
          /\ \A k \in 1..Len(delivered) : delivered[k] = pass_log[it.ds][k]
          /\ it.ended => delivered = pass_log[it.ds])

\* the test dataset has been iterated to its end a second time, after the
\* take(1) iteration was cut short and the training and validation
\* datasets were iterated once per epoch
C19_Witness ==
  /\ it.ds = "test"
  /\ it.ended
  /\ "test" \in DOMAIN pass_log
  /\ "validation" \in DOMAIN pass_log
  /\ round = Rounds
  /\ Len(delivered) = Len(pass_log["test"])

----------------------------------------------------------------------------
(* Decoding on demand                                                      *)

\* no dataset has been iterated yet
BeforeIteration == Rank(pc) <= Rank("build") \/ (it.ds = "none" /\ produced = 0)

\* images are decoded when a pass reads them and not kept: none before the
\* first iteration, and after the training pass of epoch e, and after the
\* validation pass of epoch e, every file of the split e times or more
DecodedPerPass ==
  /\ BeforeIteration => \A f \in DOMAIN decodes : decodes[f] = 0
  /\ (it.ds # "none" /\ it.ended /\ pc \in {"fit_train", "fit_validation"}) =>
       \A f \in PathsOf(it.ds) : Decoded(f) >= epoch

\* C20 as stated: every notebook decodes per pass.
C20_Original == DecodedPerPass

\* C20: the two CNN notebooks decode an image when a pass reads it and do
\* not keep it: nothing is decoded before the first iteration, and after
\* the pass of epoch e every file of the split has been decoded e times, or
\* once more where take(1) had read it.  The ViT notebook decodes every
\* training and validation image once, before its datasets are built, keeps
\* them, and decodes nothing afterwards.
C20_DecodedOnDemand ==
  /\ nb \in LazyNotebooks =>
       /\ DecodedPerPass
       /\ inputs = <<>>
       /\ (it.ds # "none" /\ it.ended /\ pc \in {"fit_train", "fit_validation"}) =>
            \A f \in PathsOf(it.ds) :
              Decoded(f) \in {epoch, epoch + (IF it.ds = "train" THEN 1 ELSE 0)}
  /\ nb \notin LazyNotebooks =>
       /\ DOMAIN inputs = {} => decodes = <<>>
       /\ DOMAIN inputs # {} =>
            /\ DOMAIN inputs = PreloadedSplits(nb)
            /\ \A s \in DOMAIN image_paths : \A f \in PathsOf(s) :
                 Decoded(f) = IF s \in PreloadedSplits(nb) THEN 1 ELSE 0

\* the ViT notebook has finished its second training epoch on images it
\* decoded once, before the datasets were built
C20_Witness ==
  /\ nb = "vit"
  /\ pc = "fit_train"
  /\ it.ds = "train" /\ it.ended
  /\ epoch = 2
  /\ \A f \in PathsOf("train") : Decoded(f) = 1

----------------------------------------------------------------------------
(* load_image                                                              *)

\* the side lengths of the file a call was made on
OriginalOf(call) == files[call.path]

\* C21: whatever the height and width of the original image, load_image
\* returns an image of exactly INPUT_IMAGE_SIZE (256 x 256 for dogs-vs-cats,
\* 80 x 80 for the traffic signs) together with the label it was given
C21_ResizedToInputSize ==
  \A i \in 1..Len(loaded) :
    /\ loaded[i].out.image.height = (IF nb = "dvc" THEN 256 ELSE 80)
    /\ loaded[i].out.image.width = (IF nb = "dvc" THEN 256 ELSE 80)
    /\ loaded[i].out.label = loaded[i].label

\* a traffic-sign image taller than 256 and narrower than 80 has been loaded
C21_Witness ==
  /\ nb = "gtsrb"
  /\ \E i \in 1..Len(loaded) :
       /\ OriginalOf(loaded[i]).height > 256
       /\ OriginalOf(loaded[i]).width < 80
       /\ loaded[i].label = 1

----------------------------------------------------------------------------
(* The indexed lists                                                       *)

\* the entry of a split directory a path lies in
EntryOf(path) ==
  CHOOSE e \in {fs[path[1]][i] : i \in 1..Len(fs[path[1]])} : e.name = path[2]

\* the path names a file, not a directory
IsFile(path) == path[3] <= EntryOf(path).n

\* C23 as stated: get_paths collects exactly the files two levels below
\* the split directory, nothing directly in it, nothing three or more
\* levels deep, and every collected path is a file
C23_Original ==
  \A s \in DOMAIN image_paths :
    /\ \A i \in 1..Len(image_paths[s]) :
         /\ Len(image_paths[s][i]) = 3
         /\ image_paths[s][i][1] = s
         /\ IsFile(image_paths[s][i])
    /\ \A e \in {fs[s][i] : i \in 1..Len(fs[s])} :
         e.kind = "dir" => \A k \in 1..e.n : <<s, e.name, k>> \in PathsOf(s)

C25_IndexedListsKept ==
  [][/\ \A s \in DOMAIN image_paths :
          s \in DOMAIN image_paths' /\ image_paths'[s] = image_paths[s]
     /\ \A s \in DOMAIN image_labels :
          s \in DOMAIN image_labels' /\ image_labels'[s] = image_labels[s]]_vars

\* every cell has run, with shuffled training passes behind it, and the
\* lists of the three splits are there
C25_Witness ==
  /\ pc = "done"
  /\ Running
  /\ DOMAIN image_paths = Splits
  /\ DOMAIN image_labels = Splits
  /\ Len(epoch_log) >= Epochs

----------------------------------------------------------------------------
(* Look-ahead                                                              *)

\* the consumer has a batch and has not asked for the next one
ConsumerProcessing ==
  /\ it.ds # "none"
  /\ th.started /\ ~th.cancelled
  /\ th.cons = "idle"
  /\ Len(delivered) >= 1

\* C26: while the consumer is processing a batch, an upcoming sample can be
\* handed to load_image as soon as map() has a free slot, and the prefetch
\* thread can go on putting the next batch together whenever its buffer is
\* below its depth and shuffle() has something to take or to give; neither
\* waits for the consumer's next request
C26_DecodeAheadOfConsumer ==
  ConsumerProcessing =>
    LET p == datasets[it.ds]
    IN /\ (p.map /\ mp.next < Len(p.source) /\ ~MapBusy(mp)) => ENABLED MapSubmit
       /\ (/\ th.prod # "finished"
           /\ ~PrefetchFull(pf)
           /\ \/ MapReady(mp, it.pos) # {}
              \/ it.pos = Len(p.source)
              \/ Cardinality(it.buf) >= BufferSize(p))
            => ENABLED (ShuffleFill \/ ShuffleDraw \/ BatchEnd)

\* during fit, the consumer works on the first batch while a load_image
\* invocation for a sample of a later batch runs
C26_Witness ==
  /\ ConsumerProcessing
  /\ pc = "fit_train"
  /\ Len(delivered) = 1
  /\ mp.inflight # {}
  /\ \A i \in mp.inflight : i > BatchSize

----------------------------------------------------------------------------
(* Samples in the batches                                                  *)

\* C27: at every position of every batch delivered in a pass over a split,
\* the image is the image of one indexed path of that split and the label
\* is the label indexed for that same path
C27_LabelStaysWithImage ==
  it.ds # "none" =>
    \A k \in 1..Len(delivered) : \A j \in 1..Len(delivered[k]) :
      \E i \in 1..Len(image_paths[it.ds]) :
        /\ delivered[k][j].image.file = image_paths[it.ds][i]
        /\ delivered[k][j].label = image_labels[it.ds][i]

\* ViT notebook, second epoch: a training batch that holds both classes, in
\* another order than they were enumerated
C27_Witness ==
  /\ nb = "vit"
  /\ it.ds = "train"
  /\ epoch = Epochs
  /\ Len(delivered) >= 1
  /\ delivered[1][1].label # delivered[1][2].label
  /\ PosOf("train", delivered[1][1]) > PosOf("train", delivered[1][2])

----------------------------------------------------------------------------
(* Fine-tuning                                                             *)

\* the layer is the one named finetuning_first_trainable_layer or comes after it
FromFirstTrainable(i) ==
  \E j \in 1..i : layers[j].name = finetuning_first_trainable_layer

\* C29: after the loop over model.layers a layer is trainable exactly if
\* it is the layer named finetuning_first_trainable_layer or comes after
\* it; every layer before it is frozen, and if no layer has that name every
\* layer is frozen
C29_TrainableFromNamedLayer ==
  TuneDone =>
    /\ \A i \in 1..Len(layers) : layers[i].trainable <=> FromFirstTrainable(i)
    /\ (\A i \in 1..Len(layers) : layers[i].name # finetuning_first_trainable_layer)
         => \A i \in 1..Len(layers) : ~layers[i].trainable

\* the loop has run over three layers with the named layer in the middle
C29_Witness ==
  /\ TuneDone
  /\ Len(layers) = 3
  /\ layers[2].name = finetuning_first_trainable_layer
  /\ ~layers[1].trainable
  /\ layers[3].trainable

----------------------------------------------------------------------------
(* Termination                                                             *)

\* number of batches of a whole pass over split s
BatchesOf(s) ==
  IF datasets[s].drop THEN Len(image_paths[s]) \div BatchSize
  ELSE (Len(image_paths[s]) + BatchSize - 1) \div BatchSize

\* C30: with every thread scheduled, every pass of fit and evaluate comes to
\* the end of its sequence unless a file fails to decode, every iterator is
\* released, and the notebook comes to its end; at the end of a sequence the
\* consumer has received floor(N/B) batches of the training or validation
\* split and ceil(N/B) batches of the test split
C30_PassesTerminate ==
  /\ [](it.ended =>
          /\ Len(delivered) = BatchesOf(it.ds)
          /\ it.ds \in {"train", "validation"}
               => Len(delivered) = Len(image_paths[it.ds]) \div BatchSize
          /\ it.ds = "test"
               => Len(delivered) * BatchSize >= Len(image_paths["test"])
                  /\ (Len(delivered) - 1) * BatchSize < Len(image_paths["test"]))
  /\ (it.ds # "none" /\ pc # "take1") ~> (it.ended \/ ~Running)
  /\ (it.ds # "none") ~> (it.ds = "none")
  /\ <>(pc = "done" \/ ~Running)

\* the last evaluate pass has come to the end of the test sequence, whose
\* last batch is a short one
C30_Witness ==
  /\ it.ds = "test"
  /\ it.ended
  /\ round = Rounds
  /\ Len(image_paths["test"]) % BatchSize # 0
  /\ Len(delivered) = Len(image_paths["test"]) \div BatchSize + 1

====
